---- MODULE Spec2Model ----
(***************************************************************************)
(* Lumio bot (src/bot.py): a Telegram bot whose Application holds nineteen *)
(* CommandHandlers and one MessageHandler for plain text.  Every inbound   *)
(* update is given to the first handler of the list that accepts it; the   *)
(* handler talks to the collaborators (sqlite, Google Sheets, Google       *)
(* Calendar, the text provider) and answers with reply_text.               *)
(*                                                                         *)
(* Text is modelled as a sequence of one-character strings, so that        *)
(* split / join / lower / float / "in" / re.sub are computed, not assumed. *)
(* The Chinese reply texts of the source are written as ASCII stand-ins.   *)
(***************************************************************************)
EXTENDS Integers, Sequences, FiniteSets, TLC

(***************************************************************************)
(* Bounds of the model.                                                    *)
(***************************************************************************)
MaxWrites == 2      \* rows and events stored before storing steps stop
MaxFindEvents == 2  \* events on the calendars SpecFind starts from
MaxClock == 2       \* the latest time a reminder sweep runs at
MaxSends == 3       \* reminder messages sent before sweeps stop selecting

(***************************************************************************)
(* Characters and text helpers (Python str methods).                       *)
(***************************************************************************)
Digits == {"0", "1", "2", "3", "4", "5", "6", "7", "8", "9"}

UpperCase == {"A", "B", "S"}

LowerCase == {"a", "b", "c", "d", "e", "f", "g", "h", "i", "j", "k", "l", "m",
              "n", "o", "p", "q", "r", "s", "t", "u", "v", "w", "x", "y", "z"}

\* str.lower() on one character
LowerChar(c) ==
    CASE c = "A" -> "a"
      [] c = "B" -> "b"
      [] c = "S" -> "s"
      [] OTHER   -> c

\* str.lower()
Lower(s) == [i \in 1..Len(s) |-> LowerChar(s[i])]

\* s[i:] of Python with a 1-based first position
From(s, i) == SubSeq(s, i, Len(s))

\* "sub in s"
Contains(sub, s) ==
    \E i \in 1..(Len(s) - Len(sub) + 1) : SubSeq(s, i, i + Len(sub) - 1) = sub

\* str.strip() for the blank character
RECURSIVE LStrip(_)
LStrip(s) == IF s # <<>> /\ s[1] = " " THEN LStrip(Tail(s)) ELSE s

RECURSIVE RStrip(_)
RStrip(s) ==
    IF s # <<>> /\ s[Len(s)] = " " THEN RStrip(SubSeq(s, 1, Len(s) - 1)) ELSE s

Strip(s) == RStrip(LStrip(s))

\* length of the longest prefix of s made of characters of set cs
RECURSIVE Run(_, _)
Run(s, cs) == IF s # <<>> /\ s[1] \in cs THEN 1 + Run(Tail(s), cs) ELSE 0

\* length of the longest blank-free prefix of s
RECURSIVE WordLen(_)
WordLen(s) == IF s # <<>> /\ s[1] # " " THEN 1 + WordLen(Tail(s)) ELSE 0

\* str.split(): the maximal blank-free pieces, in order
RECURSIVE Split(_)
Split(s) ==
    LET t == LStrip(s)
        n == WordLen(t)
    IN  IF t = <<>> THEN <<>>
        ELSE <<SubSeq(t, 1, n)>> \o Split(From(t, n + 1))

\* ' '.join(tokens)
RECURSIVE Join(_)
Join(toks) ==
    IF toks = <<>> THEN <<>>
    ELSE IF Len(toks) = 1 THEN toks[1]
    ELSE toks[1] \o <<" ">> \o Join(Tail(toks))

(***************************************************************************)
(* float(token) of Python, for the decimal forms [sign] digits [. digits]  *)
(* and [sign] . digits (no exponent, inf, nan or underscores).  The value  *)
(* is kept exactly as mant / 10^scale with no trailing zero in the         *)
(* fraction, so "100", "100.0" and "0100" are one number.                  *)
(***************************************************************************)
DigitVal(c) ==
    CASE c = "0" -> 0 [] c = "1" -> 1 [] c = "2" -> 2 [] c = "3" -> 3
      [] c = "4" -> 4 [] c = "5" -> 5 [] c = "6" -> 6 [] c = "7" -> 7
      [] c = "8" -> 8 [] c = "9" -> 9

RECURSIVE Nat10(_)
Nat10(ds) ==
    IF ds = <<>> THEN 0
    ELSE 10 * Nat10(SubSeq(ds, 1, Len(ds) - 1)) + DigitVal(ds[Len(ds)])

Unsigned(t) == IF t # <<>> /\ t[1] \in {"+", "-"} THEN Tail(t) ELSE t

\* TRUE iff float(t) does not raise ValueError
IsFloat(t) ==
    LET b    == Unsigned(t)
        n1   == Run(b, Digits)
        rest == From(b, n1 + 1)
    IN  \/ rest = <<>> /\ n1 >= 1
        \/ /\ rest # <<>>
           /\ rest[1] = "."
           /\ Run(Tail(rest), Digits) = Len(rest) - 1
           /\ n1 + Len(rest) - 1 >= 1

RECURSIVE Normal(_)
Normal(v) ==
    IF v.scale > 0 /\ v.mant % 10 = 0
    THEN Normal([v EXCEPT !.mant = v.mant \div 10, !.scale = v.scale - 1])
    ELSE v

\* float(t) for a token with IsFloat(t)
ParseFloat(t) ==
    LET b    == Unsigned(t)
        n1   == Run(b, Digits)
        frac == IF n1 < Len(b) THEN From(b, n1 + 2) ELSE <<>>
    IN  Normal([neg   |-> t[1] = "-",
                mant  |-> Nat10(SubSeq(b, 1, n1) \o frac),
                scale |-> Len(frac)])

(***************************************************************************)
(* The Application's handler list, in registration order.  A CommandHandler*)
(* accepts a message that starts with a bot-command entity ("/" followed by*)
(* letters, digits or underscores) whose command, lower-cased, is its own; *)
(* the MessageHandler accepts text that does not start with such an entity.*)
(* The first handler of the list that accepts the update handles it, and   *)
(* no other handler sees it.                                               *)
(***************************************************************************)
Handlers == <<
    [command |-> <<"s","t","a","r","t">>,                 callback |-> "start"],
    [command |-> <<"h","e","l","p">>,                     callback |-> "help_cmd"],
    [command |-> <<"a","d","d">>,                         callback |-> "add_cmd"],
    [command |-> <<"d","e","l","e","t","e">>,             callback |-> "del_cmd"],
    [command |-> <<"u","p","d","a","t","e">>,             callback |-> "update_cmd"],
    [command |-> <<"t","o","d","a","y">>,                 callback |-> "today_cmd"],
    [command |-> <<"w","e","e","k">>,                     callback |-> "week_cmd"],
    [command |-> <<"s","p","e","n","d">>,                 callback |-> "spend_cmd"],
    [command |-> <<"r","e","p","o","r","t">>,             callback |-> "report_cmd"],
    [command |-> <<"r","e","m","i","n","d">>,             callback |-> "remind_cmd"],
    [command |-> <<"r","e","m","i","n","d","e","r","s">>, callback |-> "list_reminders"],
    [command |-> <<"t","o","d","o">>,                     callback |-> "todo_cmd"],
    [command |-> <<"t","o","d","o","s">>,                 callback |-> "list_todos"],
    [command |-> <<"d","o","n","e">>,                     callback |-> "done_cmd"],
    [command |-> <<"n","o","t","e">>,                     callback |-> "note_cmd"],
    [command |-> <<"w","e","a","t","h","e","r">>,         callback |-> "weather_cmd"],
    [command |-> <<"s","t","o","c","k">>,                 callback |-> "stock_cmd"],
    [command |-> <<"s">>,                                 callback |-> "s_cmd"],
    [command |-> <<"d","e","b","u","g">>,                 callback |-> "debug"],
    [command |-> <<>>,                                    callback |-> "msg_handler"] >>

CommandChars == Digits \cup UpperCase \cup LowerCase \cup {"_"}

\* the command of the bot-command entity at offset 0: text[1:entity.length]
CommandToken(text) ==
    IF text # <<>> /\ text[1] = "/"
    THEN SubSeq(text, 2, 1 + Run(Tail(text), CommandChars))
    ELSE <<>>

\* filters.COMMAND: the message starts with a bot-command entity
IsCommand(text) == CommandToken(text) # <<>>

\* CommandHandler.check_update for the command of Handlers[i]
CommandMatchesCaseSensitive(text, cmd) ==
    IsCommand(text) /\ CommandToken(text) = cmd

CommandMatches(text, cmd) ==
    IsCommand(text) /\ Lower(CommandToken(text)) = cmd

\* line 582: filters.TEXT & (~filters.COMMAND)
TextFilter(text) == text # <<>> /\ ~IsCommand(text)

Accepts(i, text) ==
    IF Handlers[i].callback = "msg_handler"
    THEN TextFilter(text)
    ELSE CommandMatches(text, Handlers[i].command)

\* the callback the Application runs for the update, "none" when no
\* handler accepts it
Callback(text) ==
    IF \E i \in 1..Len(Handlers) : Accepts(i, text)
    THEN LET first == CHOOSE i \in 1..Len(Handlers) :
                          /\ Accepts(i, text)
                          /\ \A j \in 1..(i - 1) : ~Accepts(j, text)
         IN  Handlers[first].callback
    ELSE "none"

\* context.args: text.split()[1:]
Args(text) == Tail(Split(text))

(***************************************************************************)
(* The inbound updates the model is run with.  Spec runs the whole         *)
(* Application on one or two texts per command; SpecLedger, SpecCalendar   *)
(* and SpecFind run one group of handlers on many arguments and            *)
(* collaborator behaviours.                                                *)
(***************************************************************************)
Word    == <<"a", "b">>
Other   == <<"x">>
One     == <<"1">>
Amount  == <<"1", "2">>
Paid    == <<"p", "a", "i", "d">>

Cmd(name, args) ==
    IF args = <<>> THEN <<"/">> \o name ELSE <<"/">> \o name \o <<" ">> \o Join(args)

RegisteredCommands ==
    {Handlers[i].command : i \in {j \in 1..Len(Handlers) :
                                     Handlers[j].callback # "msg_handler"}}

CallbackNames == {Handlers[i].callback : i \in 1..Len(Handlers)} \cup {"none"}

Users == {1, 2}

UpdatesOf(texts, users) ==
    {[text |-> t, user |-> w, chat |-> w] : t \in texts, w \in users}

\* Spec: every command with one argument, some without or with two, a
\* command in capitals, unknown commands, "/" before a blank, plain text
Texts ==
    {Cmd(c, <<Word>>) : c \in RegisteredCommands}
    \cup {Cmd(c, <<>>) : c \in {<<"d","o","n","e">>, <<"r","e","m","i","n","d">>,
                                <<"w","e","a","t","h","e","r">>,
                                <<"s","t","o","c","k">>}}
    \cup {Cmd(<<"s","p","e","n","d">>, <<Amount, Word>>),
          Cmd(<<"d","o","n","e">>, <<One>>),
          Cmd(<<"S">>, <<Word>>),
          Cmd(<<"f","o","o">>, <<>>),
          Cmd(<<"A","B">>, <<Word>>),
          <<"/", " ">> \o Word,
          Word,
          Join(<<Paid, Amount, Word>>)}

Updates == UpdatesOf(Texts, {1})

\* SpecLedger: /spend with no argument, an amount or something else first,
\* then a category, then a note of one or two words
SpendArgLists ==
    LET firsts == {Amount, <<"1", ".", "5", "0">>, Word, <<".">>}
    IN  {<<>>}
        \cup {<<f>> : f \in firsts}
        \cup {<<f, Word>> : f \in firsts}
        \cup {<<f, Word, Other>> : f \in firsts}
        \cup {<<f, Word, Other, Word>> : f \in firsts}

LedgerUpdates ==
    UpdatesOf({Cmd(<<"s","p","e","n","d">>, a) : a \in SpendArgLists}
              \cup {Cmd(<<"r","e","p","o","r","t">>, <<>>)}, {1})

\* SpecCalendar: the titles the provider may give an event, and the
\* queries of a delete or an update: a title, a part of one, neither
Titles == {Word, Other}

Queries == {Word, <<"a">>, <<"z">>}

DeleteTexts(queries) ==
    {Cmd(<<"d","e","l","e","t","e">>, <<>>) \o (IF q = <<>> THEN <<>> ELSE <<" ">> \o q) :
        q \in queries}

CalendarUpdates ==
    UpdatesOf({Cmd(<<"a","d","d">>, <<Word>>),
               Cmd(<<"u","p","d","a","t","e">>, <<Word>>),
               Cmd(<<"t","o","d","a","y">>, <<>>),
               Cmd(<<"w","e","e","k">>, <<>>)}
              \cup DeleteTexts(Queries), {1})

\* SpecFind: the titles on the calendar and the queries looked up: equal
\* but for case, one inside the other, a title of one character, an empty
\* title, a parenthesised remark to strip
FindTitles == {Word, <<"A", "B">>, <<"a">>, <<"a", "b", "c">>, <<>>}

FindQueries == {Word, <<"a", "b", " ", "(", "x", ")">>, <<"A", "b", "c">>, <<"a">>,
                <<"z">>, <<"(", "z", ")">>}

FindUpdates ==
    UpdatesOf({Cmd(<<"u","p","d","a","t","e">>, <<Word>>)}
              \cup DeleteTexts(FindQueries), {1})

\* SpecDb: two users who store, list and tick off todos and reminders
DbUpdates ==
    UpdatesOf({Cmd(<<"t","o","d","o">>, <<Word>>),
               Cmd(<<"t","o","d","o","s">>, <<>>),
               Cmd(<<"d","o","n","e">>, <<One>>),
               Cmd(<<"d","o","n","e">>, <<>>),
               Cmd(<<"r","e","m","i","n","d">>, <<Word>>),
               Cmd(<<"r","e","m","i","n","d","e","r","s">>, <<>>)}, Users)

AllUpdates ==
    Updates \cup LedgerUpdates \cup CalendarUpdates \cup FindUpdates \cup DbUpdates

\* the updates the Application gives to each callback
Routed == [h \in CallbackNames |-> {u \in AllUpdates : Callback(u.text) = h}]

\* those of the set ups
For(h, ups) == Routed[h] \cap ups

(***************************************************************************)
(* State.  The stores belong to the collaborators; the rest records the    *)
(* handling of the latest update, which is what the user can observe.      *)
(***************************************************************************)
VARIABLES
    sheet,       \* the ledger worksheet: a sequence of rows
    calendar,    \* the upcoming calendar events: a set of event records
    eventIds,    \* number of events the calendar has created so far
    todos,       \* table todos: a sequence of rows, id = position
    reminders,   \* table reminders: a sequence of rows, id = position
    notes,       \* table notes: a sequence of rows
    update,      \* the latest inbound update: text and user
    handler,     \* the callback the Application ran for it
    replies,     \* the texts sent with reply_text while handling it
    raised,      \* TRUE iff the callback raised to the Application
    calls,       \* the writes asked of the collaborators while handling it
    env,         \* how the collaborators behaved while handling it
    lookup,      \* the event lookup made while handling it, if any
    clock,       \* the time of the latest reminder sweep
    job,         \* the reminder sweep in progress: position and open transaction
    outbox       \* the reminder messages sent with bot.send_message, in order

stores == <<sheet, calendar, eventIds, todos, reminders, notes>>

sweep == <<clock, job, outbox>>

vars == <<sheet, calendar, eventIds, todos, reminders, notes,
          update, handler, replies, raised, calls, env, lookup,
          clock, job, outbox>>

NoLookup == [made |-> FALSE]

\* the Application waits for an update, u arrives and h is the callback of
\* the first handler that accepts it
Dispatched(u, h) == handler = "idle" /\ u \in Routed[h]

\* one reply_text: the fixed text of the source line and the values
\* formatted into it, in order
Reply(text, args) == [text |-> text, args |-> args]

\* the handling of update u by callback h is over: what was observed
Handled(u, h, rs, r, cs, e, lk) ==
    /\ update'  = u
    /\ handler' = h
    /\ replies' = rs
    /\ raised'  = r
    /\ calls'   = cs
    /\ env'     = e
    /\ lookup'  = lk
    /\ UNCHANGED sweep

(***************************************************************************)
(* Ledger: add_to_google_sheet and spend_cmd.                              *)
(***************************************************************************)
Today == "today"

\* the four column titles of line 120
HeaderRow == <<"date", "item", "amount", "note">>

\* rows and events stored so far: every storing step is taken only while
\* this is below MaxWrites
DataRows(sh) == Len(SelectSeq(sh, LAMBDA r : r[1] # HeaderRow[1]))

Stored == DataRows(sheet) + eventIds + Len(todos) + Len(reminders) + Len(notes)

SpendUsageHint == "usage: /spend 100 lunch"
SpendOkText    == "recorded:"
SpendFailText  == "recording failed"

\* how the Sheets collaborator may behave during one add_to_google_sheet
SheetEnvs == {"ok", "no_creds", "not_found", "error", "header_fail", "append_fail"}

\* lines 118-121: insert the header row unless cell (1,1) holds its first title
EnsureHeaders(sh) ==
    IF sh = <<>> \/ sh[1][1] # HeaderRow[1] THEN <<HeaderRow>> \o sh ELSE sh

\* the worksheet after the call and the value returned
add_to_google_sheet(sh, date, category, amount, note, e) ==
    IF e \in {"no_creds", "not_found", "error"}
    THEN [ok |-> FALSE, sheet |-> sh]
    ELSE LET h == IF e = "header_fail" THEN sh ELSE EnsureHeaders(sh)
         IN  IF e = "append_fail"
             THEN [ok |-> FALSE, sheet |-> h]
             ELSE [ok |-> TRUE,
                   sheet |-> Append(h, <<date, category, amount, note>>)]

\* a parse that files a spend without category under "misc"
SpendParseDefaultCategory(args) ==
    IF args = <<>> \/ ~IsFloat(args[1])
    THEN [ok |-> FALSE]
    ELSE [ok   |-> TRUE,
          amt  |-> ParseFloat(args[1]),
          cat  |-> IF Len(args) >= 2 THEN args[2] ELSE <<"m","i","s","c">>,
          note |-> Join(SubSeq(args, 3, Len(args)))]

\* a parse that takes the note one token too early
SpendParseNoteFromCategory(args) ==
    IF args = <<>> \/ ~IsFloat(args[1]) \/ Len(args) < 2
    THEN [ok |-> FALSE]
    ELSE [ok   |-> TRUE,
          amt  |-> ParseFloat(args[1]),
          cat  |-> args[2],
          note |-> Join(SubSeq(args, 2, Len(args)))]

\* lines 450-452: float(args[0]), args[1], ' '.join(args[2:]); ok is FALSE
\* when one of them raises (IndexError, ValueError)
SpendParse(args) ==
    IF args = <<>> \/ ~IsFloat(args[1]) \/ Len(args) < 2
    THEN [ok |-> FALSE]
    ELSE [ok   |-> TRUE,
          amt  |-> ParseFloat(args[1]),
          cat  |-> args[2],
          note |-> Join(SubSeq(args, 3, Len(args)))]

spend_cmd(u, e) ==
    /\ Dispatched(u, "spend_cmd")
    /\ LET p == SpendParse(Args(u.text))
       IN  IF ~p.ok
           THEN /\ sheet' = sheet
                /\ Handled(u, "spend_cmd", <<Reply(SpendUsageHint, <<>>)>>, FALSE, <<>>, e,
                           NoLookup)
           ELSE LET r == add_to_google_sheet(sheet, Today, p.cat, p.amt, p.note, e)
                IN  /\ Stored < MaxWrites
                    /\ sheet' = r.sheet
                    /\ Handled(u, "spend_cmd",
                               IF r.ok THEN <<Reply(SpendOkText, <<p.cat, p.amt>>)>>
                                       ELSE <<Reply(SpendFailText, <<>>)>>,
                               FALSE,
                               IF e \in {"ok", "header_fail", "append_fail"}
                               THEN <<[api |-> "append_row",
                                       row |-> <<Today, p.cat, p.amt, p.note>>]>>
                               ELSE <<>>,
                               e, NoLookup)
    /\ UNCHANGED <<calendar, eventIds, todos, reminders, notes>>

(***************************************************************************)
(* get_monthly_report and report_cmd.  get_all_records reads row 1 as the  *)
(* column titles and the rows below it as records.                         *)
(***************************************************************************)
ReportEnvs == {"ok", "no_creds", "no_records_sheet", "error"}

\* the amount of a row in thousandths, for the month's total
Milli(v) ==
    LET m == CASE v.scale = 0 -> v.mant * 1000
               [] v.scale = 1 -> v.mant * 100
               [] v.scale = 2 -> v.mant * 10
               [] OTHER       -> v.mant
    IN  IF v.neg THEN 0 - m ELSE m

RECURSIVE Total(_)
Total(rows) == IF rows = <<>> THEN 0 ELSE Milli(rows[1][3]) + Total(Tail(rows))

get_monthly_report(sh, e) ==
    CASE e = "no_creds"         -> Reply("cannot connect to Google Sheets", <<>>)
      [] e = "no_records_sheet" -> Reply("worksheet 'records' not found", <<>>)
      [] e = "error"            -> Reply("report failed:", <<>>)
      [] OTHER ->
            IF Len(sh) <= 1 THEN Reply("no spending this month", <<>>)
            ELSE IF sh[1][1] # HeaderRow[1] THEN Reply("report failed:", <<>>)
            ELSE IF Total(Tail(sh)) = 0 THEN Reply("no spending this month", <<>>)
            ELSE Reply("monthly report", <<Total(Tail(sh))>>)

report_cmd(u, e) ==
    /\ Dispatched(u, "report_cmd")
    /\ Handled(u, "report_cmd", <<get_monthly_report(sheet, e)>>, FALSE, <<>>, e,
               NoLookup)
    /\ UNCHANGED stores

(***************************************************************************)
(* start, help, weather, stock, search, debug and the chat handler.        *)
(***************************************************************************)
start(u) ==
    /\ Dispatched(u, "start")
    /\ Handled(u, "start", <<Reply("Lumio V8.0", <<>>)>>, FALSE, <<>>, "none",
               NoLookup)
    /\ UNCHANGED stores

help_cmd(u) ==
    /\ Dispatched(u, "help_cmd")
    /\ Handled(u, "help_cmd", <<Reply("command list", <<>>)>>, FALSE, <<>>, "none",
               NoLookup)
    /\ UNCHANGED stores

CallEnvs == {"ok", "fail"}

Taipei == <<"T","a","i","p","e","i">>

\* requests.get to wttr.in: the text on status 200, the fixed text otherwise
get_weather(location, e) ==
    IF e = "ok" THEN Reply("weather:", <<location>>)
    ELSE Reply("weather unavailable", <<>>)

weather_cmd(u, e) ==
    /\ Dispatched(u, "weather_cmd")
    /\ LET args == Args(u.text)
       IN  Handled(u, "weather_cmd",
                   <<get_weather(IF args # <<>> THEN args[1] ELSE Taipei, e)>>,
                   FALSE, <<>>, e, NoLookup)
    /\ UNCHANGED stores

get_stock(symbol, e) ==
    IF symbol = <<>> THEN Reply("usage: /stock TSLA", <<>>)
    ELSE IF e = "ok" THEN Reply("stock:", <<symbol>>)
    ELSE Reply("stock lookup failed:", <<>>)

stock_cmd(u, e) ==
    /\ Dispatched(u, "stock_cmd")
    /\ LET args == Args(u.text)
       IN  Handled(u, "stock_cmd",
                   <<get_stock(IF args # <<>> THEN args[1] ELSE <<>>, e)>>,
                   FALSE, <<>>, e, NoLookup)
    /\ UNCHANGED stores

search_web(q, e) ==
    IF e = "ok" THEN Reply("results:", <<q>>)
    ELSE Reply("search unavailable", <<>>)

s_cmd(u, e) ==
    /\ Dispatched(u, "s_cmd")
    /\ Handled(u, "s_cmd", <<search_web(Join(Args(u.text)), e)>>, FALSE, <<>>, e,
               NoLookup)
    /\ UNCHANGED stores

\* get_google_creds: credentials, None, or an exception of the key-file
\* reader, which debug does not catch
CredsEnvs == {"ok", "none", "raise"}

debug(u, e) ==
    /\ Dispatched(u, "debug")
    /\ Handled(u, "debug",
               CASE e = "ok"   -> <<Reply("Connection Status: OK", <<>>)>>
                 [] e = "none" -> <<Reply("Connection Status: Failed", <<>>)>>
                 [] OTHER      -> <<>>,
               e = "raise", <<>>, e, NoLookup)
    /\ UNCHANGED stores

ChatFallback == "my head got stuck"

\* the provider's answer, or the fixed text when anything raises
ai_chat(text, e) ==
    IF e = "ok" THEN Reply("chat:", <<text>>) ELSE Reply(ChatFallback, <<>>)

msg_handler(u, e) ==
    /\ Dispatched(u, "msg_handler")
    /\ Handled(u, "msg_handler",
               IF u.text # <<>> THEN <<ai_chat(u.text, e)>> ELSE <<>>,
               FALSE, <<>>, e, NoLookup)
    /\ UNCHANGED stores

\* no handler of the list accepts the update: the Application drops it
Unhandled(u) ==
    /\ Dispatched(u, "none")
    /\ Handled(u, "none", <<>>, FALSE, <<>>, "none", NoLookup)
    /\ UNCHANGED stores

(***************************************************************************)
(* sqlite: todos and notes.  A statement either runs or raises             *)
(* sqlite3.Error (locked or unwritable database file).                     *)
(***************************************************************************)
DbEnvs == {"ok", "fail"}

\* WHERE id=? with the text of the argument bound: the INTEGER column
\* compares equal to a text that reads as the same number
IdMatches(tok, id) ==
    IsFloat(tok) /\ ParseFloat(tok) = [neg |-> FALSE, mant |-> id, scale |-> 0]

todo_cmd(u, e) ==
    /\ Dispatched(u, "todo_cmd")
    /\ IF e = "fail"
       THEN /\ todos' = todos
            /\ Handled(u, "todo_cmd", <<>>, TRUE, <<>>, e, NoLookup)
       ELSE LET row == [id      |-> Len(todos) + 1,
                        user_id |-> u.user,
                        task    |-> Join(Args(u.text)),
                        status  |-> "pending"]
            IN  /\ Stored < MaxWrites
                /\ todos' = Append(todos, row)
                /\ Handled(u, "todo_cmd", <<Reply("todo +1", <<>>)>>, FALSE,
                           <<[api |-> "insert_todo", row |-> row]>>, e, NoLookup)
    /\ UNCHANGED <<sheet, calendar, eventIds, reminders, notes>>

\* SELECT id, task FROM todos WHERE user_id=? AND status='pending'
PendingTodos(user) ==
    SelectSeq(todos, LAMBDA r : r.user_id = user /\ r.status = "pending")

list_todos(u, e) ==
    /\ Dispatched(u, "list_todos")
    /\ IF e = "fail"
       THEN Handled(u, "list_todos", <<>>, TRUE, <<>>, e, NoLookup)
       ELSE LET rows == PendingTodos(u.user)
            IN  Handled(u, "list_todos",
                        IF rows # <<>>
                        THEN <<Reply("todo list", [i \in 1..Len(rows) |->
                                         <<rows[i].id, rows[i].task>>])>>
                        ELSE <<Reply("no todos", <<>>)>>,
                        FALSE, <<>>, e, NoLookup)
    /\ UNCHANGED stores

\* UPDATE todos SET status='done' WHERE id=?  -- everything in try/except: pass
done_cmd(u, e) ==
    /\ Dispatched(u, "done_cmd")
    /\ LET args == Args(u.text)
       IN  IF args = <<>> \/ e = "fail"
           THEN /\ todos' = todos
                /\ Handled(u, "done_cmd", <<>>, FALSE, <<>>, e, NoLookup)
           ELSE /\ todos' = [i \in 1..Len(todos) |->
                                IF IdMatches(args[1], todos[i].id)
                                THEN [todos[i] EXCEPT !.status = "done"]
                                ELSE todos[i]]
                /\ Handled(u, "done_cmd", <<Reply("done!", <<>>)>>, FALSE,
                           <<[api |-> "update_todo", id |-> args[1]]>>, e, NoLookup)
    /\ UNCHANGED <<sheet, calendar, eventIds, reminders, notes>>

note_cmd(u, e) ==
    /\ Dispatched(u, "note_cmd")
    /\ IF e = "fail"
       THEN /\ notes' = notes
            /\ Handled(u, "note_cmd", <<>>, TRUE, <<>>, e, NoLookup)
       ELSE LET row == [user_id    |-> u.user,
                        content    |-> Join(Args(u.text)),
                        created_at |-> Today]
            IN  /\ Stored < MaxWrites
                /\ notes' = Append(notes, row)
                /\ Handled(u, "note_cmd", <<Reply("note saved", <<>>)>>, FALSE,
                           <<[api |-> "insert_note", row |-> row]>>, e, NoLookup)
    /\ UNCHANGED <<sheet, calendar, eventIds, todos, reminders>>

(***************************************************************************)
(* Reminders: remind_cmd asks the provider for {"time", "task"} and stores *)
(* the row; list_reminders lists the pending rows.                         *)
(***************************************************************************)
RemindUsage == "example: /remind in 10 minutes turn off the gas"

\* what the provider may answer to the prompt of remind_cmd
RemindAnswers(tasks) ==
    {[kind |-> "throws"], [kind |-> "text"]}
    \cup {[kind |-> "json", js |-> [task |-> t]] : t \in tasks}
    \cup {[kind |-> "json", js |-> [time |-> tm, task |-> t]] :
              tm \in {1, 2}, t \in tasks}

remind_cmd(u, e) ==
    /\ Dispatched(u, "remind_cmd")
    /\ LET text == Join(Args(u.text))
       IN  IF text = <<>>
           THEN /\ reminders' = reminders
                /\ Handled(u, "remind_cmd", <<Reply(RemindUsage, <<>>)>>, FALSE,
                           <<>>, e, NoLookup)
           ELSE IF \/ e.answer.kind # "json"
                   \/ "time" \notin DOMAIN e.answer.js
                   \/ e.db = "fail"
           THEN /\ reminders' = reminders
                /\ Handled(u, "remind_cmd", <<Reply("failed:", <<>>)>>, FALSE,
                           <<>>, e, NoLookup)
           ELSE LET row == [id          |-> Len(reminders) + 1,
                            user_id     |-> u.user,
                            chat_id     |-> u.chat,
                            remind_time |-> e.answer.js.time,
                            task        |-> e.answer.js.task,
                            status      |-> "pending"]
                IN  /\ Stored < MaxWrites
                    /\ reminders' = Append(reminders, row)
                    /\ Handled(u, "remind_cmd",
                               <<Reply("reminder set:", <<row.task, row.remind_time>>)>>,
                               FALSE, <<[api |-> "insert_reminder", row |-> row]>>,
                               e, NoLookup)
    /\ UNCHANGED <<sheet, calendar, eventIds, todos, notes>>

\* SELECT ... FROM reminders WHERE status='pending' ORDER BY remind_time ASC
PendingReminders ==
    LET p == SelectSeq(reminders, LAMBDA r : r.status = "pending")
    IN  {o \in [1..Len(p) -> 1..Len(p)] :
            /\ \A i, j \in 1..Len(p) : i # j => o[i] # o[j]
            /\ \A i, j \in 1..Len(p) :
                   i < j => p[o[i]].remind_time <= p[o[j]].remind_time}

list_reminders(u, e) ==
    /\ Dispatched(u, "list_reminders")
    /\ IF e = "fail"
       THEN Handled(u, "list_reminders", <<>>, TRUE, <<>>, e, NoLookup)
       ELSE \E o \in PendingReminders :
              LET p    == SelectSeq(reminders, LAMBDA r : r.status = "pending")
                  rows == [i \in 1..Len(p) |-> p[o[i]]]
              IN  Handled(u, "list_reminders",
                          IF rows # <<>>
                          THEN <<Reply("reminder list", [i \in 1..Len(rows) |->
                                   <<rows[i].remind_time, rows[i].task>>])>>
                          ELSE <<Reply("no reminders", <<>>)>>,
                          FALSE, <<>>, e, NoLookup)
    /\ UNCHANGED stores

(***************************************************************************)
(* check_reminders_job, run by the job queue every 60 seconds.  The sweep  *)
(* selects the pending reminders that are due and, for each, awaits        *)
(* bot.send_message and then executes the UPDATE that marks it sent; the   *)
(* UPDATEs stay in one open transaction that is committed after the last   *)
(* row.  Any exception ends the sweep in the except clause, before the     *)
(* commit: the connection is dropped and its transaction rolled back.      *)
(* Handlers run while the sweep awaits a send, at no other point.          *)
(***************************************************************************)
NoJob == [pc |-> "idle", rows |-> <<>>, i |-> 0, marked |-> {}]

\* line 520: the pending reminders with remind_time <= now, in an order of
\* the database's choosing (the SELECT has no ORDER BY)
DueReminders(now) ==
    LET p == SelectSeq(reminders,
                       LAMBDA r : r.status = "pending" /\ r.remind_time <= now)
    IN  {[i \in 1..Len(p) |-> p[o[i]]] :
            o \in {f \in [1..Len(p) -> 1..Len(p)] :
                      \A i, j \in 1..Len(p) : i # j => f[i] # f[j]}}

\* lines 523-524 once committed: the rows of the transaction are sent
MarkSent(rems, ids) ==
    [k \in 1..Len(rems) |->
        IF rems[k].id \in ids THEN [rems[k] EXCEPT !.status = "sent"] ELSE rems[k]]

\* the sweep holds the write lock of the database file from its first
\* UPDATE until it ends
Locked == job.marked # {}

\* lines 518-520, and 524 when no reminder is due: connect and SELECT work
\* or raise
SelectEnvs == {"ok", "fail"}

check_reminders_job_select(now, e) ==
    /\ handler = "idle"
    /\ job.pc = "idle"
    /\ clock' = now
    /\ IF e = "fail"
       THEN job' = NoJob
       ELSE \E rows \in DueReminders(now) :
              /\ Len(outbox) + Len(rows) <= MaxSends
              /\ job' = IF rows = <<>> THEN NoJob
                        ELSE [pc |-> "send", rows |-> rows, i |-> 1, marked |-> {}]
    /\ UNCHANGED <<stores, update, handler, replies, raised, calls, env, lookup, outbox>>

\* what may happen to one row: bot.send_message raises, the UPDATE raises,
\* the commit after the last row raises, or all of it works
RowEnvs == {"ok", "send_fail", "mark_fail", "commit_fail"}

\* lines 521-524 for row job.rows[job.i]: the send that was awaited ends,
\* the UPDATE follows, and after the last row the commit
check_reminders_job_row(e) ==
    /\ handler = "idle"
    /\ job.pc = "send"
    /\ LET row    == job.rows[job.i]
           msg    == [chat_id |-> row.chat_id, id |-> row.id, task |-> row.task]
           marked == job.marked \cup {row.id}
           last   == job.i = Len(job.rows)
       IN  /\ e = "commit_fail" => last
           /\ outbox' = IF e = "send_fail" THEN outbox ELSE Append(outbox, msg)
           /\ job' = IF e = "ok" /\ ~last
                     THEN [job EXCEPT !.i = job.i + 1, !.marked = marked]
                     ELSE NoJob
           /\ reminders' = IF e = "ok" /\ last THEN MarkSent(reminders, marked)
                           ELSE reminders
    /\ UNCHANGED <<sheet, calendar, eventIds, todos, notes, clock,
                   update, handler, replies, raised, calls, env, lookup>>

(***************************************************************************)
(* Calendar.  An event is [id, summary, start, end], times in minutes.     *)
(* events().list(..., orderBy='startTime') returns the upcoming events in  *)
(* some order of non-decreasing start (at most 50; the bounds stay below). *)
(***************************************************************************)
DefaultDuration == 60

RECURSIVE Orderings(_)
Orderings(cal) ==
    IF cal = {} THEN {<<>>}
    ELSE UNION {{<<ev>> \o rest : rest \in Orderings(cal \ {ev})} :
                   ev \in {x \in cal : \A y \in cal : x.start <= y.start}}

\* The JSON object the provider returns for an event: each key is there or
\* not (has); start_time reads as ISO 8601 or not (iso); duration_minutes
\* is a number or something else (int).
SummaryFields(titles) ==
    {[has |-> FALSE, val |-> <<>>]} \cup {[has |-> TRUE, val |-> ti] : ti \in titles}

StartFields ==
    {[has |-> FALSE, iso |-> FALSE, t |-> 0], [has |-> TRUE, iso |-> FALSE, t |-> 0]}
    \cup {[has |-> TRUE, iso |-> TRUE, t |-> t] : t \in {10}}

DurationFields ==
    {[has |-> FALSE, int |-> FALSE, val |-> 0], [has |-> TRUE, int |-> FALSE, val |-> 0]}
    \cup {[has |-> TRUE, int |-> TRUE, val |-> d] : d \in {30, -30}}

\* what the provider may answer to a prompt asking for an event: the call
\* throws, the content is no JSON, or it is a JSON object
EventAnswers(titles) ==
    {[kind |-> "throws"], [kind |-> "text"]}
    \cup {[kind |-> "json", js |-> js] :
            js \in [summary          : SummaryFields(titles),
                    start_time       : StartFields,
                    duration_minutes : DurationFields]}

NotAsked == [kind |-> "unused"]

\* js.get('duration_minutes', 60)
DurationOf(js) ==
    IF js.duration_minutes.has
    THEN js.duration_minutes
    ELSE [has |-> TRUE, int |-> TRUE, val |-> DefaultDuration]

\* lines 195-196 and 326-327 taking the present moment for a start_time
\* that is missing or does not parse
EventTimesLenient(js) ==
    IF DurationOf(js).int
    THEN LET t == IF js.start_time.has /\ js.start_time.iso
                  THEN js.start_time.t ELSE 0
         IN  [ok |-> TRUE, start |-> t, end |-> t + DurationOf(js).val]
    ELSE [ok |-> FALSE, start |-> 0, end |-> 0]

\* lines 195-196 and 326-327: fromisoformat and timedelta; ok is FALSE when
\* one of them raises (KeyError, ValueError, TypeError)
EventTimes(js) ==
    IF js.start_time.has /\ js.start_time.iso /\ DurationOf(js).int
    THEN [ok    |-> TRUE,
          start |-> js.start_time.t,
          end   |-> js.start_time.t + DurationOf(js).val]
    ELSE [ok |-> FALSE, start |-> 0, end |-> 0]

AddEnvs(titles) ==
    {[service |-> "none",  answer |-> NotAsked, write |-> "unused"],
     [service |-> "raise", answer |-> NotAsked, write |-> "unused"]}
    \cup {[service |-> "ok", answer |-> a, write |-> "unused"] :
            a \in {x \in EventAnswers(titles) :
                     x.kind # "json" \/ ~EventTimes(x.js).ok \/ ~x.js.summary.has}}
    \cup {[service |-> "ok", answer |-> a, write |-> w] :
            a \in {x \in EventAnswers(titles) :
                     x.kind = "json" /\ EventTimes(x.js).ok /\ x.js.summary.has},
            w \in {"ok", "fail"}}

\* the reply, the calendar afterwards and the writes asked of it
add_event(cal, ids, text, e) ==
    LET same(r) == [reply |-> r, calendar |-> cal, calls |-> <<>>]
    IN  CASE e.service = "none"  -> same(Reply("Google Calendar not configured", <<>>))
          [] e.service = "raise" -> same(Reply("failed:", <<>>))
          [] e.answer.kind = "throws" -> same(Reply("failed:", <<>>))
          [] e.answer.kind = "text" -> same(Reply("cannot parse the AI answer:", <<>>))
          [] OTHER ->
                LET js == e.answer.js
                    tm == EventTimes(js)
                    ev == [id      |-> ids + 1,
                           summary |-> js.summary.val,
                           start   |-> tm.start,
                           end     |-> tm.end]
                    body == [summary |-> ev.summary, start |-> ev.start, end |-> ev.end]
                IN  IF ~tm.ok \/ ~js.summary.has
                    THEN same(Reply("failed:", <<>>))
                    ELSE IF e.write = "fail"
                    THEN [reply    |-> Reply("failed:", <<>>),
                          calendar |-> cal,
                          calls    |-> <<[api |-> "insert", body |-> body]>>]
                    ELSE [reply    |-> Reply("created:", <<ev.summary, ev.start>>),
                          calendar |-> cal \cup {ev},
                          calls    |-> <<[api |-> "insert", body |-> body]>>]

add_cmd(u, e) ==
    /\ Dispatched(u, "add_cmd")
    /\ LET r == add_event(calendar, eventIds, Join(Args(u.text)), e)
       IN  /\ r.calendar # calendar => Stored < MaxWrites
           /\ calendar' = r.calendar
           /\ eventIds' = IF r.calendar # calendar THEN eventIds + 1 ELSE eventIds
           /\ Handled(u, "add_cmd", <<r.reply>>, FALSE, r.calls, e, NoLookup)
    /\ UNCHANGED <<sheet, todos, reminders, notes>>

(***************************************************************************)
(* find_event_by_query: the lookup shared by delete and update.            *)
(***************************************************************************)
\* re.sub(r'\s*\(.*?\)', '', query): drop every parenthesised part, from the
\* blanks before "(" to the first ")" after it
RECURSIVE StripParens(_)
StripParens(q) ==
    IF q = <<>> THEN <<>>
    ELSE LET r == From(q, Run(q, {" "}) + 1)
         IN  IF r # <<>> /\ r[1] = "(" /\ \E k \in 2..Len(r) : r[k] = ")"
             THEN LET k == CHOOSE k \in 2..Len(r) :
                               r[k] = ")" /\ \A j \in 2..(k - 1) : r[j] # ")"
                  IN  StripParens(From(r, k + 1))
             ELSE <<q[1]>> \o StripParens(Tail(q))

CleanQuery(query) == Strip(StripParens(query))

\* lines 265-271: the test that appends an event to matches
IsMatch(summary, clean_query) ==
    \/ Contains(Lower(clean_query), Lower(summary))
    \/ Contains(Lower(summary), Lower(clean_query)) /\ Len(summary) > 1

\* line 280
IsExact(summary, clean_query) == Lower(summary) = Lower(clean_query)

SuggestionLimit == 5

\* lines 275-276 listing every upcoming event
SuggestionsAll(events) == [i \in 1..Len(events) |-> events[i].summary]

\* lines 275-276: events[:5]
Suggestions(events) ==
    [i \in 1..(IF Len(events) < SuggestionLimit THEN Len(events)
               ELSE SuggestionLimit) |-> events[i].summary]

NotFoundText == "no upcoming event contains:"

NoEvent == [id |-> 0, summary |-> <<>>, start |-> 0, end |-> 0]

\* how the calendar may behave during the lookup: the list is returned, no
\* credentials (service is None), or the call raises with a message or
\* with an empty one
FindEnvs == {"ok", "no_service", "list_fail", "list_fail_blank"}

\* lines 279-284 returning the first match whatever its title
PickFirst(matches, clean_query) == matches[1]

\* lines 279-284: the only exact match, else the first match
Pick(matches, clean_query) ==
    LET exacts == SelectSeq(matches, LAMBDA ev : IsExact(ev.summary, clean_query))
    IN  IF Len(exacts) = 1 THEN exacts[1] ELSE matches[1]

\* (target, error_msg): found says target is an event, err says error_msg
\* is a non-empty text
find_event_by_query(events, query, e) ==
    LET clean_query == CleanQuery(query)
        matches     == SelectSeq(events, LAMBDA ev : IsMatch(ev.summary, clean_query))
        none(err, msg) == [made |-> TRUE, query |-> query, clean |-> clean_query,
                           events |-> IF e = "ok" THEN events ELSE <<>>,
                           env |-> e, matches |-> <<>>,
                           found |-> FALSE, target |-> NoEvent,
                           err |-> err, error_msg |-> msg]
    IN  CASE e = "no_service" ->
                none(TRUE, Reply("Google Calendar Service Failed", <<>>))
          [] e = "list_fail" -> none(TRUE, Reply("error text", <<>>))
          [] e = "list_fail_blank" -> none(FALSE, Reply("", <<>>))
          [] OTHER ->
                IF matches = <<>>
                THEN none(TRUE, Reply(NotFoundText, <<clean_query, Suggestions(events)>>))
                ELSE [made |-> TRUE, query |-> query, clean |-> clean_query,
                      events |-> events, env |-> e, matches |-> matches,
                      found |-> TRUE, target |-> Pick(matches, clean_query),
                      err |-> FALSE, error_msg |-> Reply("", <<>>)]

(***************************************************************************)
(* delete_event and del_cmd.                                               *)
(***************************************************************************)
DeleteEnvs ==
    {[find |-> f, write |-> "unused"] : f \in FindEnvs}
    \cup {[find |-> "ok", write |-> w] : w \in {"ok", "fail"}}

\* delete_event for the lookup result lk
delete_event(cal, lk, e) ==
    IF lk.err
    THEN [reply |-> lk.error_msg, calendar |-> cal, calls |-> <<>>]
    ELSE IF ~lk.found
    THEN [reply |-> Reply("delete failed:", <<>>), calendar |-> cal, calls |-> <<>>]
    ELSE IF e.write = "fail"
    THEN [reply    |-> Reply("delete failed:", <<>>),
          calendar |-> cal,
          calls    |-> <<[api |-> "delete", id |-> lk.target.id]>>]
    ELSE [reply    |-> Reply("deleted:", <<lk.target.summary>>),
          calendar |-> cal \ {lk.target},
          calls    |-> <<[api |-> "delete", id |-> lk.target.id]>>]

del_cmd(u, e) ==
    /\ Dispatched(u, "del_cmd")
    /\ \E events \in Orderings(calendar) :
          LET lk == find_event_by_query(events, Join(Args(u.text)), e.find)
              r  == delete_event(calendar, lk, e)
          IN  /\ (e.write = "unused") = (lk.err \/ ~lk.found)
              /\ calendar' = r.calendar
              /\ Handled(u, "del_cmd", <<r.reply>>, FALSE, r.calls, e, lk)
    /\ UNCHANGED <<sheet, eventIds, todos, reminders, notes>>

(***************************************************************************)
(* update_event and update_cmd: the provider names the event to change     *)
(* (target_keywords), the event is looked up, the provider then gives the  *)
(* new event, which is patched onto the one found.                         *)
(***************************************************************************)
\* the first answer: throws, no JSON, or a JSON object with or without the
\* two keys the code reads
TargetAnswers(queries) ==
    {[kind |-> "throws"], [kind |-> "text"],
     [kind |-> "json", has |-> FALSE, target_keywords |-> <<>>]}
    \cup {[kind |-> "json", has |-> TRUE, target_keywords |-> q] : q \in queries}

TargetOk(a) == a.kind = "json" /\ a.has

UpdateEnvs(queries, titles) ==
    {[service |-> "raise", answer1 |-> NotAsked, find |-> "unused",
      answer2 |-> NotAsked, write |-> "unused"]}
    \cup {[service |-> "ok", answer1 |-> a, find |-> "unused",
           answer2 |-> NotAsked, write |-> "unused"] :
            a \in {x \in TargetAnswers(queries) : ~TargetOk(x)}}
    \cup {[service |-> "ok", answer1 |-> a, find |-> f,
           answer2 |-> NotAsked, write |-> "unused"] :
            a \in {x \in TargetAnswers(queries) : TargetOk(x)}, f \in FindEnvs}
    \cup {[service |-> "ok", answer1 |-> a, find |-> "ok",
           answer2 |-> b, write |-> "unused"] :
            a \in {x \in TargetAnswers(queries) : TargetOk(x)},
            b \in {x \in EventAnswers(titles) : x.kind # "json" \/ ~EventTimes(x.js).ok}}
    \cup {[service |-> "ok", answer1 |-> a, find |-> "ok",
           answer2 |-> b, write |-> w] :
            a \in {x \in TargetAnswers(queries) : TargetOk(x)},
            b \in {x \in EventAnswers(titles) : x.kind = "json" /\ EventTimes(x.js).ok},
            w \in {"ok", "fail"}}

UpdateFailed == Reply("update failed:", <<>>)

\* line 330: js_up.get('summary', target_event['summary'])
NewSummary(js_up, target_event) ==
    [ok  |-> TRUE,
     val |-> IF js_up.summary.has THEN js_up.summary.val ELSE target_event.summary]

\* update_event from line 314 on, for the lookup result lk
update_event(cal, lk, e) ==
    LET same(r) == [reply |-> r, calendar |-> cal, calls |-> <<>>]
    IN  IF lk.err THEN same(lk.error_msg)
        ELSE IF ~lk.found THEN same(UpdateFailed)
        ELSE IF e.answer2.kind # "json" THEN same(UpdateFailed)
        ELSE LET js_up == e.answer2.js
                 tm    == EventTimes(js_up)
                 sm    == NewSummary(js_up, lk.target)
                 body  == [summary |-> sm.val, start |-> tm.start, end |-> tm.end]
                 ev    == [id      |-> lk.target.id,
                           summary |-> body.summary,
                           start   |-> body.start,
                           end     |-> body.end]
                 call  == [api |-> "patch", id |-> lk.target.id, body |-> body]
             IN  IF ~tm.ok \/ ~sm.ok THEN same(UpdateFailed)
                 ELSE IF e.write = "fail"
                 THEN [reply |-> UpdateFailed, calendar |-> cal, calls |-> <<call>>]
                 ELSE [reply    |-> Reply("updated:", <<body.summary, body.start>>),
                       calendar |-> (cal \ {lk.target}) \cup {ev},
                       calls    |-> <<call>>]

update_cmd(u, e) ==
    /\ Dispatched(u, "update_cmd")
    /\ IF e.service = "raise" \/ ~TargetOk(e.answer1)
       THEN /\ calendar' = calendar
            /\ Handled(u, "update_cmd", <<UpdateFailed>>, FALSE, <<>>, e, NoLookup)
       ELSE \E events \in Orderings(calendar) :
              LET lk == find_event_by_query(events, e.answer1.target_keywords, e.find)
                  r  == update_event(calendar, lk, e)
              IN  /\ (e.answer2.kind = "unused") = (lk.err \/ ~lk.found)
                  /\ calendar' = r.calendar
                  /\ Handled(u, "update_cmd", <<r.reply>>, FALSE, r.calls, e, lk)
    /\ UNCHANGED <<sheet, eventIds, todos, reminders, notes>>

(***************************************************************************)
(* list_events, today_cmd and week_cmd.                                    *)
(***************************************************************************)
MinutesPerDay == 1440

ServiceEnvs == {"ok", "none", "raise"}

\* the events that start within the next `days` days, in the order listed
list_events(events, days, e) ==
    LET win == SelectSeq(events, LAMBDA ev : ev.start <= days * MinutesPerDay)
    IN  CASE e = "none"  -> Reply("Google Calendar not configured", <<>>)
          [] e = "raise" -> Reply("reading failed", <<>>)
          [] OTHER ->
                IF win = <<>> THEN Reply("no events in the next days:", <<days>>)
                ELSE Reply("events of the next days:",
                           <<days, [i \in 1..Len(win) |->
                                       <<win[i].start, win[i].summary>>]>>)

today_cmd(u, e) ==
    /\ Dispatched(u, "today_cmd")
    /\ \E events \in Orderings(calendar) :
          Handled(u, "today_cmd", <<list_events(events, 1, e)>>, FALSE, <<>>, e,
                  NoLookup)
    /\ UNCHANGED stores

week_cmd(u, e) ==
    /\ Dispatched(u, "week_cmd")
    /\ \E events \in Orderings(calendar) :
          Handled(u, "week_cmd", <<list_events(events, 7, e)>>, FALSE, <<>>, e,
                  NoLookup)
    /\ UNCHANGED stores

(***************************************************************************)
(* The behaviours of the collaborators Spec is run with: for each handler  *)
(* one where every call works and at least one where a call fails.         *)
(***************************************************************************)
GoodEvent ==
    [kind |-> "json",
     js   |-> [summary          |-> [has |-> TRUE, val |-> Word],
               start_time       |-> [has |-> TRUE, iso |-> TRUE, t |-> 10],
               duration_minutes |-> [has |-> FALSE, int |-> FALSE, val |-> 0]]]

GoodTarget == [kind |-> "json", has |-> TRUE, target_keywords |-> Word]

SomeAddEnvs ==
    {[service |-> "ok", answer |-> GoodEvent, write |-> "ok"],
     [service |-> "ok", answer |-> [kind |-> "throws"], write |-> "unused"]}

SomeDeleteEnvs ==
    {[find |-> "ok", write |-> "ok"], [find |-> "ok", write |-> "unused"],
     [find |-> "list_fail", write |-> "unused"]}

SomeUpdateEnvs ==
    {[service |-> "ok", answer1 |-> GoodTarget, find |-> "ok",
      answer2 |-> GoodEvent, write |-> "ok"],
     [service |-> "ok", answer1 |-> GoodTarget, find |-> "ok",
      answer2 |-> NotAsked, write |-> "unused"],
     [service |-> "ok", answer1 |-> [kind |-> "throws"], find |-> "unused",
      answer2 |-> NotAsked, write |-> "unused"]}

SomeRemindEnvs ==
    {[answer |-> a, db |-> d] : a \in RemindAnswers({Word}), d \in DbEnvs}

AllAddEnvs == AddEnvs(Titles)

AllUpdateEnvs == UpdateEnvs(Queries, Titles)

NoUpdate == [text |-> <<>>, user |-> 0, chat |-> 0]

Init ==
    /\ sheet \in {<<>>, <<HeaderRow>>}
    /\ calendar = {}
    /\ eventIds = 0
    /\ todos = <<>>
    /\ reminders = <<>>
    /\ notes = <<>>
    /\ update = NoUpdate
    /\ handler = "idle"
    /\ replies = <<>>
    /\ raised = FALSE
    /\ calls = <<>>
    /\ env = "none"
    /\ lookup = NoLookup
    /\ clock = 0
    /\ job = NoJob
    /\ outbox = <<>>

\* run_polling: the callback has returned (or raised, which the Application
\* logs) and the Application waits for the next update
NextUpdate ==
    /\ handler # "idle"
    /\ update' = NoUpdate
    /\ handler' = "idle"
    /\ replies' = <<>>
    /\ raised' = FALSE
    /\ calls' = <<>>
    /\ env' = "none"
    /\ lookup' = NoLookup
    /\ UNCHANGED stores
    /\ UNCHANGED sweep

Next ==
    \/ \E u \in For("start", Updates) : start(u)
    \/ \E u \in For("help_cmd", Updates) : help_cmd(u)
    \/ \E u \in For("add_cmd", Updates), e \in SomeAddEnvs : add_cmd(u, e)
    \/ \E u \in For("del_cmd", Updates), e \in SomeDeleteEnvs : del_cmd(u, e)
    \/ \E u \in For("update_cmd", Updates), e \in SomeUpdateEnvs : update_cmd(u, e)
    \/ \E u \in For("today_cmd", Updates), e \in ServiceEnvs : today_cmd(u, e)
    \/ \E u \in For("week_cmd", Updates), e \in ServiceEnvs : week_cmd(u, e)
    \/ \E u \in For("spend_cmd", Updates), e \in SheetEnvs : spend_cmd(u, e)
    \/ \E u \in For("report_cmd", Updates), e \in ReportEnvs : report_cmd(u, e)
    \/ \E u \in For("remind_cmd", Updates), e \in SomeRemindEnvs : remind_cmd(u, e)
    \/ \E u \in For("list_reminders", Updates), e \in DbEnvs : list_reminders(u, e)
    \/ \E u \in For("todo_cmd", Updates), e \in DbEnvs : todo_cmd(u, e)
    \/ \E u \in For("list_todos", Updates), e \in DbEnvs : list_todos(u, e)
    \/ \E u \in For("done_cmd", Updates), e \in DbEnvs : done_cmd(u, e)
    \/ \E u \in For("note_cmd", Updates), e \in DbEnvs : note_cmd(u, e)
    \/ \E u \in For("weather_cmd", Updates), e \in CallEnvs : weather_cmd(u, e)
    \/ \E u \in For("stock_cmd", Updates), e \in CallEnvs : stock_cmd(u, e)
    \/ \E u \in For("s_cmd", Updates), e \in CallEnvs : s_cmd(u, e)
    \/ \E u \in For("debug", Updates), e \in CredsEnvs : debug(u, e)
    \/ \E u \in For("msg_handler", Updates), e \in CallEnvs : msg_handler(u, e)
    \/ \E u \in For("none", Updates) : Unhandled(u)
    \/ NextUpdate

Spec == Init /\ [][Next]_vars

(***************************************************************************)
(* SpecLedger: spend and report on many argument lists, every behaviour of *)
(* the Sheets collaborator.                                                *)
(***************************************************************************)
NextLedger ==
    \/ \E u \in For("spend_cmd", LedgerUpdates), e \in SheetEnvs : spend_cmd(u, e)
    \/ \E u \in For("report_cmd", LedgerUpdates), e \in ReportEnvs : report_cmd(u, e)
    \/ NextUpdate

SpecLedger == Init /\ [][NextLedger]_vars

(***************************************************************************)
(* SpecCalendar: add, delete, update and the listings, every answer of the *)
(* provider and every behaviour of the calendar.                           *)
(***************************************************************************)
NextCalendar ==
    \/ \E u \in For("add_cmd", CalendarUpdates), e \in AllAddEnvs : add_cmd(u, e)
    \/ \E u \in For("del_cmd", CalendarUpdates), e \in DeleteEnvs : del_cmd(u, e)
    \/ \E u \in For("update_cmd", CalendarUpdates), e \in AllUpdateEnvs : update_cmd(u, e)
    \/ \E u \in For("today_cmd", CalendarUpdates), e \in ServiceEnvs : today_cmd(u, e)
    \/ \E u \in For("week_cmd", CalendarUpdates), e \in ServiceEnvs : week_cmd(u, e)
    \/ NextUpdate

SpecCalendar == Init /\ [][NextCalendar]_vars

(***************************************************************************)
(* SpecFind: delete and update on calendars that already hold events: all  *)
(* calendars of up to MaxFindEvents events with the titles FindTitles, and *)
(* calendars of one event more than the suggestion limit.  Deletes work or *)
(* fail; the patch of an update is asked for and refused by the calendar,  *)
(* so that the calendars looked up stay those of the start and what a      *)
(* delete leaves of them.                                                  *)
(***************************************************************************)
EventOf(i, title, at) ==
    [id |-> i, summary |-> title, start |-> at, end |-> at + DefaultDuration]

SmallCalendars ==
    UNION {{{EventOf(i, f[i].title, f[i].start) : i \in 1..n} :
               f \in [1..n -> [title : FindTitles, start : {1, 2}]]} :
           n \in 0..MaxFindEvents}

LongCalendars ==
    {{EventOf(i, t, i) : i \in 1..(SuggestionLimit + 1)} : t \in {Word, <<"a">>}}

FindUpdateEnvs ==
    {[service |-> "ok",
      answer1 |-> [kind |-> "json", has |-> TRUE, target_keywords |-> q],
      find |-> f, answer2 |-> NotAsked, write |-> "unused"] :
        q \in FindQueries, f \in FindEnvs}
    \cup {[service |-> "ok",
           answer1 |-> [kind |-> "json", has |-> TRUE, target_keywords |-> q],
           find |-> "ok", answer2 |-> GoodEvent, write |-> "fail"] :
        q \in FindQueries}

InitFind ==
    /\ sheet = <<HeaderRow>>
    /\ calendar \in SmallCalendars \cup LongCalendars
    /\ eventIds = 0
    /\ todos = <<>>
    /\ reminders = <<>>
    /\ notes = <<>>
    /\ update = NoUpdate
    /\ handler = "idle"
    /\ replies = <<>>
    /\ raised = FALSE
    /\ calls = <<>>
    /\ env = "none"
    /\ lookup = NoLookup
    /\ clock = 0
    /\ job = NoJob
    /\ outbox = <<>>

NextFind ==
    \/ \E u \in For("del_cmd", FindUpdates), e \in DeleteEnvs : del_cmd(u, e)
    \/ \E u \in For("update_cmd", FindUpdates), e \in FindUpdateEnvs : update_cmd(u, e)
    \/ NextUpdate

SpecFind == InitFind /\ [][NextFind]_vars

(***************************************************************************)
(* SpecDb: the todo and reminder handlers for two users, together with the *)
(* reminder sweep.  While the sweep holds the write lock, a handler's      *)
(* INSERT or UPDATE waits for the lock on the event loop's own thread, so  *)
(* the sweep cannot go on, and raises "database is locked" at the timeout; *)
(* a SELECT is not held up.                                                *)
(***************************************************************************)
WriteEnvs == IF Locked THEN {"fail"} ELSE DbEnvs

DbRemindEnvs ==
    {[answer |-> a, db |-> d] : a \in RemindAnswers(Titles), d \in WriteEnvs}

NextDb ==
    \/ \E e \in RowEnvs : check_reminders_job_row(e)
    \/ \E now \in clock..MaxClock, e \in SelectEnvs : check_reminders_job_select(now, e)
    \/ \E u \in For("todo_cmd", DbUpdates), e \in WriteEnvs : todo_cmd(u, e)
    \/ \E u \in For("list_todos", DbUpdates), e \in DbEnvs : list_todos(u, e)
    \/ \E u \in For("done_cmd", DbUpdates), e \in WriteEnvs : done_cmd(u, e)
    \/ \E u \in For("remind_cmd", DbUpdates), e \in DbRemindEnvs : remind_cmd(u, e)
    \/ \E u \in For("list_reminders", DbUpdates), e \in DbEnvs : list_reminders(u, e)
    \/ NextUpdate

SpecDb == Init /\ [][NextDb]_vars

(***************************************************************************)
(* Properties.                                                             *)
(***************************************************************************)
\* the text as the router description reads it: split on blanks, the first
\* word without its prefix and case-folded is the command name
HasPrefix(text) == text # <<>> /\ text[1] = "/"

CommandName(text) == Lower(Tail(Split(text)[1]))

IsRegistered(text) == HasPrefix(text) /\ CommandName(text) \in RegisteredCommands

IsHandled == handler # "idle"

\* C1: an update that begins with "/" and whose command name is a
\* registered command is handled by the callback registered for that
\* command and by no other, never by the chat handler.
C1_FastPathExclusive ==
    (IsHandled /\ IsRegistered(update.text)) =>
        /\ handler # "msg_handler"
        /\ \A i \in 1..Len(Handlers) :
               (Handlers[i].callback # "msg_handler"
                /\ Handlers[i].command = CommandName(update.text))
                   => handler = Handlers[i].callback

\* C1 witness: the search command typed in capitals reached s_cmd
C1_Witness ==
    /\ handler = "s_cmd"
    /\ update.text = Cmd(<<"S">>, <<Word>>)
    /\ Len(replies) = 1

\* C2: an update that begins with "/" and whose command name is not a
\* registered command is handled by the chat handler, which answers with
\* the conversational reply to the whole original text.
C2_UnknownCommandFallsThrough ==
    (IsHandled /\ HasPrefix(update.text) /\ ~IsRegistered(update.text)) =>
        /\ handler = "msg_handler"
        /\ Len(replies) = 1
        /\ replies[1] \in {ai_chat(update.text, e) : e \in CallEnvs}

\* C3: every registered command and every plain text ends with exactly one
\* reply and without the callback raising, whatever the collaborators do.
C3_NothingEscapes ==
    (IsHandled /\ handler # "none") => (~raised /\ Len(replies) = 1)

\* C6: a plain text that contains the ledger keyword is never answered by
\* the conversational reply alone: a ledger write is asked for, or the
\* spend usage hint is the reply.
LedgerKeyword == Paid

C6_SafetyNet ==
    (IsHandled /\ ~HasPrefix(update.text) /\ Contains(LedgerKeyword, update.text)) =>
        \/ \E i \in 1..Len(calls) : calls[i].api = "append_row"
        \/ replies = <<Reply(SpendUsageHint, <<>>)>>

\* the arguments of a spend command as its usage line reads them
Malformed(args) == args = <<>> \/ ~IsFloat(args[1]) \/ Len(args) < 2

\* the rows of the worksheet that are not the row of column titles
Entries(sh) == SelectSeq(sh, LAMBDA r : r[1] # HeaderRow[1])

C5_SpendRecorded ==
    [][(handler' = "spend_cmd" /\ ~Malformed(Args(update'.text))) =>
          LET args == Args(update'.text)
              row  == <<Today, args[2], ParseFloat(args[1]),
                        Join(SubSeq(args, 3, Len(args)))>>
          IN  /\ env' \in {"ok", "header_fail"} =>
                    /\ Entries(sheet') = Append(Entries(sheet), row)
                    /\ Len(sheet') - Len(sheet) \in {1, 2}
                    /\ replies' = <<Reply(SpendOkText, <<args[2], ParseFloat(args[1])>>)>>
              /\ env' \notin {"ok", "header_fail"} =>
                    /\ Len(replies') = 1
                    /\ replies'[1].text # SpendOkText]_vars

\* C5 witness: "/spend 1.50 ab x ab" was recorded as 1.5 with note "x ab"
C5_Witness ==
    /\ handler = "spend_cmd"
    /\ env = "ok"
    /\ Args(update.text) = <<<<"1", ".", "5", "0">>, Word, Other, Word>>
    /\ sheet[Len(sheet)] = <<Today, Word, [neg |-> FALSE, mant |-> 15, scale |-> 1],
                             <<"x", " ", "a", "b">>>>
    /\ replies[1].text = SpendOkText

\* the answer of the provider that holds the event structure, if it was
\* asked for while handling the update
Structure ==
    IF handler = "add_cmd" THEN env.answer
    ELSE IF handler = "update_cmd" THEN env.answer2
    ELSE NotAsked

Throws(a)       == a.kind = "throws"
LacksSummary(a) == a.kind = "json" /\ ~a.js.summary.has
LacksStart(a)   == a.kind = "json" /\ ~a.js.start_time.has
BadStart(a)     == a.kind = "json" /\ a.js.start_time.has /\ ~a.js.start_time.iso

ProviderThrew ==
    \/ Throws(Structure)
    \/ handler = "update_cmd" /\ Throws(env.answer1)

\* no insert or patch was asked for, the calendar is as before, and the one
\* reply is an error text
NoEventWritten ==
    /\ calls' = <<>>
    /\ calendar' = calendar
    /\ Len(replies') = 1
    /\ replies'[1].text \in {"failed:", "update failed:"}

C8_DurationDefault ==
    (handler \in {"add_cmd", "update_cmd"} /\ calls # <<>>) =>
        LET d    == Structure.js.duration_minutes
            used == IF d.has /\ d.int /\ d.val > 0 THEN d.val ELSE 60
            body == calls[1].body
        IN  body.end = body.start + used /\ body.end > body.start

\* the lookup of claim C9 for a given reading of "the title matches"
LookupReturns(Matching(_, _)) ==
    (lookup.made /\ lookup.env = "ok") =>
        LET q   == lookup.clean
            evs == lookup.events
            M   == {i \in 1..Len(evs) : Matching(evs[i].summary, q)}
            X   == {i \in M : Lower(evs[i].summary) = Lower(q)}
        IN  /\ lookup.found = (M # {})
            /\ {lookup.matches[i] : i \in 1..Len(lookup.matches)} = {evs[i] : i \in M}
            /\ lookup.found =>
                  \E i \in M :
                     /\ evs[i] = lookup.target
                     /\ Cardinality(X) = 1 => i \in X
                     /\ Cardinality(X) # 1 => \A j \in M : evs[i].start <= evs[j].start

TitleInQueryOrQueryInTitle(title, q) ==
    \/ Contains(Lower(q), Lower(title))
    \/ Contains(Lower(title), Lower(q))

LongTitleInQueryOrQueryInTitle(title, q) ==
    \/ Contains(Lower(q), Lower(title))
    \/ Len(title) > 1 /\ Contains(Lower(title), Lower(q))

\* C9 as claimed: the matches are the events whose title contains the
\* normalised query or is contained in it, case ignored; the event returned
\* is the only match equal to the query if there is exactly one, else the
\* match that starts earliest.
C9_LookupAnyTitle == LookupReturns(TitleInQueryOrQueryInTitle)

\* C9 as amended: a title contained in the query matches only when it has
\* more than one character.
C9_LookupLongTitle == LookupReturns(LongTitleInQueryOrQueryInTitle)

\* C9 witness: "ab (x)" was looked up as "ab" among two matches, and the
\* later one, the only one equal to the query, was returned
C9_Witness ==
    /\ lookup.made
    /\ lookup.query = <<"a", "b", " ", "(", "x", ")">>
    /\ lookup.clean = Word
    /\ lookup.found
    /\ Len(lookup.matches) = 2
    /\ lookup.target = lookup.matches[2]
    /\ lookup.matches[1].start < lookup.matches[2].start

\* C10: when no upcoming event matches the query of a delete or an update,
\* no delete or patch is asked for, the calendar is unchanged, and the one
\* reply names the normalised query and lists the titles of the first
\* upcoming events, five at most.
C10_NotFoundChangesNothing ==
    [][(/\ lookup'.made
        /\ lookup'.env = "ok"
        /\ \A i \in 1..Len(lookup'.events) :
              ~LongTitleInQueryOrQueryInTitle(lookup'.events[i].summary, lookup'.clean))
          => /\ calls' = <<>>
             /\ calendar' = calendar
             /\ Len(replies') = 1
             /\ replies'[1].text = NotFoundText
             /\ replies'[1].args[1] = lookup'.clean
             /\ LET sug == replies'[1].args[2]
                IN  /\ Len(sug) <= 5
                    /\ Len(sug) <= Len(lookup'.events)
                    /\ \A i \in 1..Len(sug) : sug[i] = lookup'.events[i].summary]_vars

\* C10 witness: a delete found nothing among six upcoming events and
\* suggested five of them
C10_Witness ==
    /\ handler = "del_cmd"
    /\ lookup.made
    /\ ~lookup.found
    /\ Len(lookup.events) = 6
    /\ calls = <<>>
    /\ Len(replies[1].args[2]) = 5

\* the reminder messages sent so far are for these reminders
Delivered(box) == {box[m].id : m \in 1..Len(box)}

\* C11: in every step, a reminder's stored status becomes sent only if its
\* message has been sent; a message sent is for a reminder that no message
\* was sent for before; and when a sweep ends, every reminder whose message
\* has been sent is stored as sent.
C11_SendThenMarkSent ==
    [][/\ \A k \in 1..Len(reminders) :
             (reminders[k].status # "sent" /\ reminders'[k].status = "sent")
                 => reminders[k].id \in Delivered(outbox')
       /\ outbox' # outbox =>
             /\ Len(outbox') = Len(outbox) + 1
             /\ outbox'[Len(outbox')].id \notin Delivered(outbox)
       /\ (job.pc = "send" /\ job'.pc = "idle") =>
             \A k \in 1..Len(reminders') :
                 reminders'[k].id \in Delivered(outbox')
                     => reminders'[k].status = "sent"]_vars

\* C12: a command of one user leaves the status of every todo stored under
\* another user's user_id as it was, and the rows a todo listing or a
\* reminder listing shows to a user are rows stored under that user's own
\* user_id.
C12_PerUserIsolation ==
    [][(handler = "idle" /\ handler' # "idle") =>
          /\ \A k \in 1..Len(todos) :
                todos[k].user_id # update'.user => todos'[k].status = todos[k].status
          /\ (handler' = "list_todos" /\ replies' # <<>>) =>
                \A i \in 1..Len(replies'[1].args) :
                    \E k \in 1..Len(todos) :
                        /\ <<todos[k].id, todos[k].task>> = replies'[1].args[i]
                        /\ todos[k].user_id = update'.user
          /\ (handler' = "list_reminders" /\ replies' # <<>>) =>
                \A i \in 1..Len(replies'[1].args) :
                    \E k \in 1..Len(reminders) :
                        /\ <<reminders[k].remind_time, reminders[k].task>>
                               = replies'[1].args[i]
                        /\ reminders[k].user_id = update'.user]_vars

====
